---- MODULE Spec2Model ----
(***************************************************************************)
(* Client-side session / game state machine of the word guessing game.     *)
(*                                                                         *)
(*   WordGameApp          (word-game-app.tsx)          session, connection *)
(*   WordGameSessionView  (word-game-session-view.tsx) liveness timeout    *)
(*   WordGameControlBar   (word-game-control-bar.tsx)  game control, RPCs  *)
(*                                                                         *)
(* One action is one run-to-completion step of the JavaScript event loop:  *)
(* an event handler or a promise continuation, followed by the React       *)
(* re-render it schedules and the effects (cleanup, then body) of every    *)
(* dependency that changed.  The room, the agent and the promises the code *)
(* awaits are the environment: their completions are separate actions.     *)
(***************************************************************************)
EXTENDS Integers, Sequences, FiniteSets, Bags, TLC

VARIABLES
    mounted,            \* WordGameApp is mounted
    sessionStarted,     \* useState(false), WordGameApp
    audioStarted,       \* useState(false), WordGameApp
    connectionDetails,  \* useConnectionDetails: the memoised details
    refreshing,         \* useConnectionDetails: a refresh() is still fetching
    roomState,          \* room.state
    remoteParticipants, \* room.remoteParticipants (identities)
    agentState,         \* useVoiceAssistant().state
    attempts,           \* connection attempts with a promise still pending
    timers,             \* pending setTimeout callbacks of the session view
    sessionAge,         \* time units since the session was last started
    everAvailable,      \* history: the agent was available in this session
    isLoading,          \* useState(false), WordGameControlBar
    gameStarted,        \* useState(false), WordGameControlBar
    selectedLanguage,   \* useState('Portuguese'), WordGameControlBar
    score,              \* useState({correct: 0, total: 0})
    rpcs,               \* performRpc calls not yet settled
    word_pairs,         \* rows of the word_pairs table (schema.sql)
    out                 \* handler that ran last and the calls it made

vars == <<mounted, sessionStarted, audioStarted, connectionDetails, refreshing,
          roomState, remoteParticipants, agentState, attempts, timers, sessionAge, everAvailable, isLoading,
          gameStarted, selectedLanguage, score, rpcs, word_pairs, out>>

appVars  == <<sessionStarted, audioStarted, connectionDetails, refreshing>>
roomVars == <<roomState, remoteParticipants, agentState>>
timeVars == <<timers, sessionAge, everAvailable>>
gameVars == <<isLoading, gameStarted, selectedLanguage, score, rpcs>>
storeVars == <<word_pairs>>

----------------------------------------------------------------------------
(* Bounds *)

MaxAge == 24
MaxRpcs == 2
MaxAttempts == 2
MaxTimers == 2
MaxTotal == 40

(* Program constants *)

TIMEOUT == 20

\* Bits of the significand of a JavaScript number (IEEE 754 binary64).
SIGNIFICAND == 53

LANGUAGES ==
    {"Portuguese", "Spanish", "French", "Italian", "German", "Belarusian"}

InitialLanguage == "Portuguese"

ZeroScore == [correct |-> 0, total |-> 0]

\* The identities that may join the room, and which of them is the agent.
Participants == {"agent-1", "user-2"}

isAgent(p) == p = "agent-1"

NoAgent == "undefined"

AgentStates ==
    {"disconnected", "connecting", "initializing", "listening", "thinking", "speaking"}

\* States the agent reports about itself once it has joined.
ReportedStates == {"initializing", "listening", "thinking", "speaking"}

----------------------------------------------------------------------------
(* Pure helpers *)

isAgentAvailable(s) == s = "listening" \/ s = "thinking" \/ s = "speaking"

\* Mutant: the two reasons exchanged.
reasonSwapped(s) ==
    IF s = "connecting"
    THEN "toast: Agent connected but did not complete initializing."
    ELSE "toast: Agent did not join the room."

reason(s) ==
    IF s = "connecting"
    THEN "toast: Agent did not join the room."
    ELSE "toast: Agent connected but did not complete initializing."

\* Mutant: find() without the isAgent test.
FindAgentAnyone(parts) ==
    IF parts # {} THEN CHOOSE p \in parts : TRUE ELSE NoAgent

\* Array.from(room.remoteParticipants.values()).find((p) => p.isAgent)
FindAgent(parts) ==
    IF \E p \in parts : isAgent(p)
    THEN CHOOSE p \in parts : isAgent(p)
    ELSE NoAgent

\* Mutant: the handlers without their busy guard.
BusyNever == FALSE

\* if (isLoading) return;
Busy == isLoading

Min(a, b) == IF a < b THEN a ELSE b

RemoveAt(s, i) == SubSeq(s, 1, i - 1) \o SubSeq(s, i + 1, Len(s))

----------------------------------------------------------------------------
(* Effects *)

\* The timeout effect of WordGameSessionView, deps [agentState, sessionStarted,
\* room]: when a dependency changed, the cleanup of the previous run clears its
\* timer and the body arms a new one if the session is started.  The callback
\* closes over the agentState of the render that armed it.
NewTimer(as) == [left |-> TIMEOUT, agentState |-> as]

\* Mutant: the effect without its cleanup (no clearTimeout).
TimeoutEffectNoCleanup(ss, as, ss2, as2, ts) ==
    IF ss = ss2 /\ as = as2
    THEN ts
    ELSE IF ss2 /\ Len(ts) < MaxTimers THEN Append(ts, NewTimer(as2)) ELSE ts

\* Mutant: the cleanup clears the timer only when the session ends, not when
\* the effect re-runs within a session.
TimeoutEffectKeepsOld(ss, as, ss2, as2, ts) ==
    IF ss = ss2 /\ as = as2
    THEN ts
    ELSE IF ~ss2 THEN <<>>
         ELSE IF Len(ts) < MaxTimers THEN Append(ts, NewTimer(as2)) ELSE ts

TimeoutEffect(ss, as, ss2, as2, ts) ==
    IF ss = ss2 /\ as = as2
    THEN ts
    ELSE IF ss2 THEN <<NewTimer(as2)>> ELSE <<>>

\* A connection attempt: the Promise.all of the connect effect.
\*   mic     setMicrophoneEnabled still pending
\*   conn    "fetch": details pending, "connect": room.connect pending, "done"
\*   aborted the cleanup of the effect run that started it has run
\*   caught  the Promise.all has already rejected (its catch has run)
NewAttempt == [mic |-> TRUE, conn |-> "fetch", aborted |-> FALSE, caught |-> FALSE]

Pending(a) == a.mic \/ a.conn # "done"

Prune(as) == SelectSeq(as, Pending)

\* Mutant: the catch without its check of aborted.
CatchIgnoresAborted(a) ==
    IF a.caught
    THEN <<>>
    ELSE <<"toast: There was an error connecting to the agent">>

\* .catch((error) => { if (aborted) return; toastAlert(...) }) for attempt a,
\* as the calls it makes.
Catch(a) ==
    IF a.caught \/ a.aborted
    THEN <<>>
    ELSE <<"toast: There was an error connecting to the agent">>

AbortAll(as) == [i \in 1..Len(as) |-> [as[i] EXCEPT !.aborted = TRUE]]

\* room.connect promises rejected because the room went to disconnected.
RejectConnects(as) ==
    [i \in 1..Len(as) |->
        IF as[i].conn = "connect"
        THEN [as[i] EXCEPT !.conn = "done", !.caught = TRUE]
        ELSE as[i]]

RECURSIVE CatchConnects(_)
CatchConnects(as) ==
    IF as = <<>> THEN <<>>
    ELSE (IF Head(as).conn = "connect" THEN Catch(Head(as)) ELSE <<>>)
         \o CatchConnects(Tail(as))

MarkLate(rs) == [i \in 1..Len(rs) |-> [rs[i] EXCEPT !.late = TRUE]]

----------------------------------------------------------------------------
Init ==
    /\ mounted = TRUE
    /\ sessionStarted = FALSE
    /\ audioStarted = FALSE
    /\ connectionDetails = "none"
    /\ refreshing = FALSE
    /\ roomState = "disconnected"
    /\ remoteParticipants = {}
    /\ agentState = "disconnected"
    /\ attempts = <<>>
    /\ timers = <<>>
    /\ sessionAge = 0
    /\ everAvailable = FALSE
    /\ isLoading = FALSE
    /\ gameStarted = FALSE
    /\ selectedLanguage = InitialLanguage
    /\ score = ZeroScore
    /\ rpcs = <<>>
    /\ word_pairs = EmptyBag
    /\ out = <<>>

----------------------------------------------------------------------------
(* Connection Detail Provider (useConnectionDetails): the memo is "none",   *)
(* "fresh" (issued, not yet given to room.connect) or "used" (the details a *)
(* session connected with).                                                *)

\* refresh(): forces a new fetch, invalidating the memo.
refreshConnectionDetails == [connectionDetails |-> "none", refreshing |-> TRUE]

\* existingOrRefresh() returns the memo if there is one.
HasMemo == connectionDetails # "none"

\* Mutant: onDisconnected without its refreshConnectionDetails().
onDisconnectedNoRefresh ==
    [sessionStarted |-> FALSE,
     connectionDetails |-> connectionDetails,
     refreshing |-> refreshing,
     calls |-> <<"setSessionStarted(false)">>]

\* const onDisconnected = () => { setSessionStarted(false);
\*                                refreshConnectionDetails(); }
onDisconnected ==
    [sessionStarted |-> FALSE,
     connectionDetails |-> refreshConnectionDetails.connectionDetails,
     refreshing |-> refreshConnectionDetails.refreshing,
     calls |-> <<"setSessionStarted(false)", "refreshConnectionDetails">>]

(* The room goes to 'disconnected' and emits RoomEvent.Disconnected.        *)
(* `calls` are the calls the step made before.                             *)
Disconnected(calls) ==
    /\ roomState' = "disconnected"
    /\ remoteParticipants' = {}
    /\ agentState' = "disconnected"
    /\ rpcs' = MarkLate(rpcs)
    /\ IF mounted
       THEN \* onDisconnected; then the effects of the re-render
            /\ sessionStarted' = onDisconnected.sessionStarted
            /\ connectionDetails' = onDisconnected.connectionDetails
            /\ refreshing' = onDisconnected.refreshing
            /\ attempts' = Prune(AbortAll(RejectConnects(attempts)))
            /\ timers' = TimeoutEffect(sessionStarted, agentState,
                                       FALSE, "disconnected", timers)
            /\ gameStarted' = FALSE
            /\ score' = ZeroScore
            /\ out' = calls \o CatchConnects(attempts) \o onDisconnected.calls
                      \o <<"setGameStarted(false)", "setScore">>
       ELSE /\ attempts' = Prune(RejectConnects(attempts))
            /\ out' = calls \o CatchConnects(attempts)
            /\ UNCHANGED <<sessionStarted, connectionDetails, refreshing, timers,
                           gameStarted, score>>
    /\ UNCHANGED <<mounted, audioStarted, sessionAge, everAvailable, isLoading,
                   selectedLanguage>>

----------------------------------------------------------------------------
(* WordGameControlBar *)

\* The START GAME button is rendered while !gameStarted, inside the session
\* view, which is inert while !sessionStarted.
StartButtonShown == mounted /\ sessionStarted /\ ~gameStarted

StopButtonShown == mounted /\ sessionStarted /\ gameStarted

Rpc(method, payload, agent) ==
    [method |-> method, payload |-> payload, destinationIdentity |-> agent,
     late |-> FALSE]

\* The synchronous part of handleStartGame / handleStopGame, up to the await.
Request(handler, method, payload) ==
    IF Busy
    THEN /\ out' = <<handler, "return">>
         /\ UNCHANGED gameVars
    ELSE IF FindAgent(remoteParticipants) = NoAgent
    THEN \* setIsLoading(true); console.error; return; finally setIsLoading(false)
         /\ isLoading' = FALSE
         /\ out' = <<handler, "console.error: No agent found in the room">>
         /\ UNCHANGED <<gameStarted, selectedLanguage, score, rpcs>>
    ELSE /\ isLoading' = TRUE
         /\ rpcs' = Append(rpcs, Rpc(method, payload, FindAgent(remoteParticipants)))
         /\ out' = <<handler, "performRpc">>
         /\ UNCHANGED <<gameStarted, selectedLanguage, score>>

\* Mutant: the handler keeps the language of its first render (a callback
\* memoised without selectedLanguage among its dependencies).
StartPayloadStale == InitialLanguage

\* payload: selectedLanguage, of the render the click happened in.
StartPayload == selectedLanguage

handleStartGame ==
    /\ UNCHANGED storeVars
    /\ StartButtonShown
    /\ Len(rpcs) < MaxRpcs
    /\ Request("handleStartGame", "start_game", StartPayload)
    /\ UNCHANGED <<mounted, appVars, roomVars, attempts, timeVars>>

\* Mutant: STOP GAME also leaves the room.
handleStopGameDisconnects ==
    /\ UNCHANGED storeVars
    /\ StopButtonShown
    /\ Disconnected(<<"handleStopGame", "room.disconnect">>)

\* Mutant: stop_game sent with the payload of start_game.
handleStopGameSendsLanguage ==
    /\ UNCHANGED storeVars
    /\ StopButtonShown
    /\ Len(rpcs) < MaxRpcs
    /\ Request("handleStopGame", "stop_game", selectedLanguage)
    /\ UNCHANGED <<mounted, appVars, roomVars, attempts, timeVars>>

handleStopGame ==
    /\ UNCHANGED storeVars
    /\ StopButtonShown
    /\ Len(rpcs) < MaxRpcs
    /\ Request("handleStopGame", "stop_game", "")
    /\ UNCHANGED <<mounted, appVars, roomVars, attempts, timeVars>>

\* Mutant: handleStartGame without its setScore.
ResolvedNoReset(r) ==
    IF r.method = "start_game"
    THEN [gameStarted |-> TRUE, score |-> score, isLoading |-> FALSE,
          calls |-> <<"start_game resolved", "setGameStarted(true)">>]
    ELSE [gameStarted |-> FALSE, score |-> score, isLoading |-> FALSE,
          calls |-> <<"stop_game resolved", "setGameStarted(false)">>]

\* Mutant: handleStopGame resets the score as handleStartGame does.
ResolvedStopResets(r) ==
    IF r.method = "start_game"
    THEN [gameStarted |-> TRUE, score |-> ZeroScore, isLoading |-> FALSE,
          calls |-> <<"start_game resolved", "setGameStarted(true)", "setScore">>]
    ELSE [gameStarted |-> FALSE, score |-> ZeroScore, isLoading |-> FALSE,
          calls |-> <<"stop_game resolved", "setGameStarted(false)", "setScore">>]

\* Mutant: handleStartGame counts the start as a correct answer.
ResolvedCountsStart(r) ==
    IF r.method = "start_game"
    THEN [gameStarted |-> TRUE,
          score |-> [correct |-> score.correct + 1, total |-> 0],
          isLoading |-> FALSE,
          calls |-> <<"start_game resolved", "setGameStarted(true)", "setScore">>]
    ELSE [gameStarted |-> FALSE, score |-> score, isLoading |-> FALSE,
          calls |-> <<"stop_game resolved", "setGameStarted(false)">>]

\* The continuation of the handler after `await performRpc(...)` resolved
\* (the statements after the await, then finally): the new values of the state
\* and the calls made.
Resolved(r) ==
    IF r.method = "start_game"
    THEN [gameStarted |-> TRUE, score |-> ZeroScore, isLoading |-> FALSE,
          calls |-> <<"start_game resolved", "setGameStarted(true)", "setScore">>]
    ELSE [gameStarted |-> FALSE, score |-> score, isLoading |-> FALSE,
          calls |-> <<"stop_game resolved", "setGameStarted(false)">>]

\* Mutant: the handlers without their finally.
RejectedNoFinally(r) ==
    [gameStarted |-> gameStarted, score |-> score, isLoading |-> isLoading,
     calls |-> <<r.method \o " rejected", "console.error: Failed">>]

\* performRpc raised or timed out: catch (console.error), then finally.
Rejected(r) ==
    IF r.method = "start_game"
    THEN [gameStarted |-> gameStarted, score |-> score, isLoading |-> FALSE,
          calls |-> <<"start_game rejected", "console.error: Failed to start game">>]
    ELSE [gameStarted |-> gameStarted, score |-> score, isLoading |-> FALSE,
          calls |-> <<"stop_game rejected", "console.error: Failed to stop game">>]

\* A settled performRpc runs the rest of its handler; the state updates of an
\* unmounted component are dropped.
Settle(i, result) ==
    /\ rpcs' = RemoveAt(rpcs, i)
    /\ out' = result.calls
    /\ IF mounted
       THEN /\ gameStarted' = result.gameStarted
            /\ score' = result.score
            /\ isLoading' = result.isLoading
       ELSE UNCHANGED <<gameStarted, score, isLoading>>
    /\ UNCHANGED <<mounted, appVars, roomVars, attempts, timeVars, selectedLanguage>>

performRpcResolved(i) ==
    /\ UNCHANGED storeVars
    /\ i \in 1..Len(rpcs)
    /\ Settle(i, Resolved(rpcs[i]))

performRpcRejected(i) ==
    /\ UNCHANGED storeVars
    /\ i \in 1..Len(rpcs)
    /\ Settle(i, Rejected(rpcs[i]))

\* Mutant: the select always rendered and never disabled.
SelectEnabledAlways == TRUE

\* The select is rendered while !gameStarted; disabled={isLoading || gameStarted}.
SelectEnabled == ~gameStarted /\ ~(isLoading \/ gameStarted)

\* <select onChange>: setSelectedLanguage(e.target.value), the value of the
\* option chosen; choosing the option already selected fires no change event.
setSelectedLanguage(lang) ==
    /\ UNCHANGED storeVars
    /\ mounted /\ sessionStarted
    /\ SelectEnabled
    /\ lang \in LANGUAGES \ {selectedLanguage}
    /\ selectedLanguage' = lang
    /\ out' = <<"setSelectedLanguage", lang>>
    /\ UNCHANGED <<mounted, appVars, roomVars, attempts, timeVars,
                   isLoading, gameStarted, score, rpcs>>

\* Mutant of AnswerJudged: the client records the answer in the score.
AnswerJudgedRecords(correct) ==
    /\ UNCHANGED storeVars
    /\ mounted /\ sessionStarted /\ gameStarted
    /\ roomState = "connected"
    /\ FindAgent(remoteParticipants) # NoAgent
    /\ score.total < MaxTotal
    /\ score' = [correct |-> score.correct + (IF correct THEN 1 ELSE 0),
                 total |-> score.total + 1]
    /\ out' = <<"answer judged", IF correct THEN "correct" ELSE "incorrect">>
    /\ UNCHANGED <<mounted, appVars, roomVars, attempts, timeVars,
                   isLoading, gameStarted, selectedLanguage, rpcs>>

\* The agent judged an answer of the user as correct or not, and said so on
\* the audio track.  The control bar registers no RPC method and no data or
\* attribute listener, and passes no callback down: no handler of the client
\* runs, and setScore is called at lines 35 and 60 only.
AnswerJudged(correct) ==
    /\ UNCHANGED storeVars
    /\ mounted /\ sessionStarted /\ gameStarted
    /\ roomState = "connected"
    /\ FindAgent(remoteParticipants) # NoAgent
    /\ out' = <<"answer judged", IF correct THEN "correct" ELSE "incorrect">>
    /\ UNCHANGED <<mounted, appVars, roomVars, attempts, timeVars, gameVars>>

----------------------------------------------------------------------------
(* The score display: JavaScript number arithmetic                          *)
(*                                                                         *)
(* A positive number is [bits, exp]: SIGNIFICAND bits, most significant    *)
(* first, bits[1] = 1, and bits[i] has weight 2^(exp - i + 1).  Zero is the *)
(* record with all bits 0.  Every operation rounds its exact result to     *)
(* nearest, ties to even, as binary64 does.                                *)

Front(q) == SubSeq(q, 1, Len(q) - 1)

Last(q) == q[Len(q)]

Zeros(n) == [i \in 1..n |-> 0]

Zero == [bits |-> Zeros(SIGNIFICAND), exp |-> 0]

One == [bits |-> <<1>> \o Zeros(SIGNIFICAND - 1), exp |-> 0]

\* bits + 1, for bits that are not all 1: the trailing ones and the zero
\* before them are flipped.
Increment(bits) ==
    [i \in 1..Len(bits) |->
        IF \A j \in (i + 1)..Len(bits) : bits[j] = 1 THEN 1 - bits[i] ELSE bits[i]]

\* The exact value bits (bits[1] = 1 of weight 2^exp, more than SIGNIFICAND
\* bits, followed by a non-zero tail iff sticky) rounded to a number.
RoundToNearestEven(bits, exp, sticky) ==
    LET kept == SubSeq(bits, 1, SIGNIFICAND)
        guard == bits[SIGNIFICAND + 1]
        tail == sticky \/ \E i \in (SIGNIFICAND + 2)..Len(bits) : bits[i] = 1
        up == guard = 1 /\ (tail \/ Last(kept) = 1)
    IN  IF ~up
        THEN [bits |-> kept, exp |-> exp]
        ELSE IF \A i \in 1..SIGNIFICAND : kept[i] = 1
        THEN [bits |-> <<1>> \o Zeros(SIGNIFICAND - 1), exp |-> exp + 1]
        ELSE [bits |-> Increment(kept), exp |-> exp]

\* The number of zero bits after the binary point of r / t, for 0 < r < t.
RECURSIVE LeadingZeros(_, _)
LeadingZeros(r, t) == IF 2 * r >= t THEN 0 ELSE 1 + LeadingZeros(2 * r, t)

\* The first n bits after the binary point of r / t, for 0 <= r < t, and the
\* remainder left.
FractionBits(r, t, n) ==
    LET rem[i \in 0..n] == IF i = 0 THEN r ELSE (2 * rem[i - 1]) % t
    IN  [bits |-> [i \in 1..n |-> IF 2 * rem[i - 1] >= t THEN 1 ELSE 0],
         rem |-> rem[n]]

RECURSIVE Pow2(_)
Pow2(n) == IF n = 0 THEN 1 ELSE 2 * Pow2(n - 1)

\* c / t for integers 0 <= c <= t, 0 < t.
Divide(c, t) ==
    IF c = 0 THEN Zero
    ELSE IF c = t THEN One
    ELSE LET z == LeadingZeros(c, t)
             f == FractionBits(c * Pow2(z), t, SIGNIFICAND + 1)
         IN  RoundToNearestEven(f.bits, 0 - (z + 1), f.rem # 0)

\* The binary digits of n, most significant first.
RECURSIVE Binary(_)
Binary(n) == IF n = 0 THEN <<>> ELSE Binary(n \div 2) \o <<n % 2>>

\* The binary digits of bits * k; carry[j] is the carry out of the j lowest
\* digits.
TimesBits(bits, k) ==
    LET n == Len(bits)
        carry[j \in 0..n] ==
            IF j = 0 THEN 0 ELSE (k * bits[n - j + 1] + carry[j - 1]) \div 2
    IN  Binary(carry[n]) \o [i \in 1..n |-> (k * bits[i] + carry[n - i]) % 2]

\* x * k for a number x and an integer k >= 2.
Times(x, k) ==
    IF x = Zero THEN Zero
    ELSE LET p == TimesBits(x.bits, k)
         IN  RoundToNearestEven(p, x.exp + (Len(p) - SIGNIFICAND), FALSE)

RECURSIVE BitsValue(_)
BitsValue(bits) ==
    IF bits = <<>> THEN 0 ELSE 2 * BitsValue(Front(bits)) + Last(bits)

\* Math.round(x) for 0 <= x < 2^SIGNIFICAND: the integer part of x, plus one
\* if the fraction is a half or more (the first bit after the point is 1).
MathRound(x) ==
    IF x.exp < 0 - 1 THEN 0
    ELSE BitsValue(SubSeq(x.bits, 1, x.exp + 1))
         + (IF x.exp + 2 <= SIGNIFICAND THEN x.bits[x.exp + 2] ELSE 0)

\* score.total > 0 ? Math.round((score.correct / score.total) * 100) : 0
accuracy(sc) ==
    IF sc.total > 0 THEN MathRound(Times(Divide(sc.correct, sc.total), 100)) ELSE 0

\* {score.correct} / {score.total} ({accuracy}%), rendered while gameStarted.
ScoreDisplay ==
    /\ UNCHANGED storeVars
    /\ mounted /\ gameStarted
    /\ out' = <<"score display", score.correct, score.total, accuracy(score)>>
    /\ UNCHANGED <<mounted, appVars, roomVars, attempts, timeVars, gameVars>>

----------------------------------------------------------------------------
(* WordGameApp *)

SetAt(as, i, a) == [as EXCEPT ![i] = a]

\* disabled={sessionStarted} of the welcome view, which renders
\* inert={disabled}.
WelcomeDisabled == sessionStarted

WelcomeInert == WelcomeDisabled

\* disabled={!sessionStarted} of the session view, which renders
\* inert={disabled}.
SessionViewDisabled == ~sessionStarted

SessionViewInert == SessionViewDisabled

\* {!audioStarted && sessionStarted && <button onClick={startAudio}>}
EnableAudioShown == ~audioStarted /\ sessionStarted

\* Mutant of onStartGame: the session is started without startAudio().
onStartGameWithoutAudio ==
    /\ UNCHANGED storeVars
    /\ mounted /\ ~sessionStarted
    /\ Len(attempts) < MaxAttempts
    /\ sessionStarted' = TRUE
    /\ sessionAge' = 0
    /\ everAvailable' = FALSE
    /\ IF roomState = "disconnected" /\ HasMemo
       THEN /\ attempts' = Append(attempts, [NewAttempt EXCEPT !.conn = "connect"])
            /\ connectionDetails' = "used"
            /\ roomState' = "connecting"
            /\ agentState' = "connecting"
            /\ timers' = TimeoutEffect(TRUE, agentState, TRUE, "connecting",
                             TimeoutEffect(sessionStarted, agentState,
                                           TRUE, agentState, timers))
            /\ out' = <<"onStartGame", "setSessionStarted(true)",
                        "room.connect", connectionDetails>>
            /\ UNCHANGED <<remoteParticipants, refreshing>>
       ELSE /\ attempts' = IF roomState = "disconnected"
                           THEN Append(attempts, NewAttempt)
                           ELSE attempts
            /\ timers' = TimeoutEffect(sessionStarted, agentState,
                                       TRUE, agentState, timers)
            /\ out' = <<"onStartGame", "setSessionStarted(true)">>
            /\ UNCHANGED <<roomVars, connectionDetails, refreshing>>
    /\ UNCHANGED <<mounted, audioStarted, gameVars>>

\* The welcome view's onStartGame (START PRACTICING); the welcome view is inert
\* while sessionStarted.  Then the effects of the re-render: the connect effect
\* starts an attempt if the room is disconnected, the timeout effect arms.
\* With a memo, existingOrRefreshConnectionDetails() is already resolved and
\* its .then (room.connect) runs in the same turn, after the effects.
onStartGame ==
    /\ UNCHANGED storeVars
    /\ mounted /\ ~sessionStarted
    /\ Len(attempts) < MaxAttempts
    /\ sessionStarted' = TRUE
    /\ audioStarted' = TRUE
    /\ sessionAge' = 0
    /\ everAvailable' = FALSE
    /\ IF roomState = "disconnected" /\ HasMemo
       THEN /\ attempts' = Append(attempts, [NewAttempt EXCEPT !.conn = "connect"])
            /\ connectionDetails' = "used"
            /\ roomState' = "connecting"
            /\ agentState' = "connecting"
            /\ timers' = TimeoutEffect(TRUE, agentState, TRUE, "connecting",
                             TimeoutEffect(sessionStarted, agentState,
                                           TRUE, agentState, timers))
            /\ out' = <<"onStartGame", "setSessionStarted(true)",
                        "setAudioStarted(true)", "room.connect", connectionDetails>>
            /\ UNCHANGED <<remoteParticipants, refreshing>>
       ELSE /\ attempts' = IF roomState = "disconnected"
                           THEN Append(attempts, NewAttempt)
                           ELSE attempts
            /\ timers' = TimeoutEffect(sessionStarted, agentState,
                                       TRUE, agentState, timers)
            /\ out' = <<"onStartGame", "setSessionStarted(true)",
                        "setAudioStarted(true)">>
            /\ UNCHANGED <<roomVars, connectionDetails, refreshing>>
    /\ UNCHANGED <<mounted, gameVars>>

\* existingOrRefreshConnectionDetails() resolved: .then(room.connect(...)).
\* There is no check of `aborted` on this path.
detailsResolved(i) ==
    /\ UNCHANGED storeVars
    /\ i \in 1..Len(attempts)
    /\ attempts[i].conn = "fetch"
    /\ IF roomState = "connected"
       THEN \* connect() resolves at once
            /\ attempts' = Prune(SetAt(attempts, i, [attempts[i] EXCEPT !.conn = "done"]))
            /\ UNCHANGED <<roomVars, timers>>
       ELSE /\ attempts' = SetAt(attempts, i, [attempts[i] EXCEPT !.conn = "connect"])
            /\ roomState' = "connecting"
            /\ agentState' = "connecting"
            /\ timers' = IF mounted
                         THEN TimeoutEffect(sessionStarted, agentState,
                                            sessionStarted, "connecting", timers)
                         ELSE timers
            /\ UNCHANGED remoteParticipants
    /\ connectionDetails' = IF mounted THEN "used" ELSE connectionDetails
    /\ out' = <<"details resolved", "room.connect", "fetched">>
    /\ UNCHANGED <<mounted, sessionStarted, audioStarted, refreshing, sessionAge,
                   everAvailable, gameVars>>

\* The fetch of a refreshConnectionDetails() call resolved: the details are
\* memoised.  `last` says whether no other refresh is still fetching.
refreshResolved(last) ==
    /\ UNCHANGED storeVars
    /\ mounted /\ refreshing
    /\ connectionDetails' = "fresh"
    /\ refreshing' = ~last
    /\ out' = <<"refresh resolved">>
    /\ UNCHANGED <<mounted, sessionStarted, audioStarted, roomVars, attempts,
                   timeVars, gameVars>>

\* The fetch of a refreshConnectionDetails() call failed: no memo is set.
refreshRejected(last) ==
    /\ UNCHANGED storeVars
    /\ mounted /\ refreshing
    /\ refreshing' = ~last
    /\ out' = <<"refresh rejected">>
    /\ UNCHANGED <<mounted, sessionStarted, audioStarted, connectionDetails,
                   roomVars, attempts, timeVars, gameVars>>

\* existingOrRefreshConnectionDetails() rejected: the Promise.all rejects.
detailsRejected(i) ==
    /\ UNCHANGED storeVars
    /\ i \in 1..Len(attempts)
    /\ attempts[i].conn = "fetch"
    /\ attempts' = Prune(SetAt(attempts, i,
                        [attempts[i] EXCEPT !.conn = "done", !.caught = TRUE]))
    /\ out' = <<"details rejected">> \o Catch(attempts[i])
    /\ UNCHANGED <<mounted, appVars, roomVars, timeVars, gameVars>>

\* setMicrophoneEnabled(true, ...) resolved.
microphoneResolved(i) ==
    /\ UNCHANGED storeVars
    /\ i \in 1..Len(attempts)
    /\ attempts[i].mic
    /\ attempts' = Prune(SetAt(attempts, i, [attempts[i] EXCEPT !.mic = FALSE]))
    /\ out' = <<"microphone resolved">>
    /\ UNCHANGED <<mounted, appVars, roomVars, timeVars, gameVars>>

\* setMicrophoneEnabled(true, ...) rejected: the Promise.all rejects.
microphoneRejected(i) ==
    /\ UNCHANGED storeVars
    /\ i \in 1..Len(attempts)
    /\ attempts[i].mic
    /\ attempts' = Prune(SetAt(attempts, i,
                        [attempts[i] EXCEPT !.mic = FALSE, !.caught = TRUE]))
    /\ out' = <<"microphone rejected">> \o Catch(attempts[i])
    /\ UNCHANGED <<mounted, appVars, roomVars, timeVars, gameVars>>

\* Mutant: a media device error ends the session.
onMediaDevicesErrorDisconnects ==
    /\ UNCHANGED storeVars
    /\ mounted
    /\ Disconnected(<<"onMediaDevicesError",
                      "toast: Encountered an error with your media devices",
                      "room.disconnect">>)

\* onMediaDevicesError: a toast and nothing else.
onMediaDevicesError ==
    /\ UNCHANGED storeVars
    /\ mounted
    /\ out' = <<"onMediaDevicesError",
                "toast: Encountered an error with your media devices">>
    /\ UNCHANGED <<mounted, appVars, roomVars, attempts, timeVars, gameVars>>

\* The component is unmounted: the listeners are removed, the cleanup of the
\* connect effect sets aborted and calls room.disconnect(), the cleanup of the
\* timeout effect clears the timer.
Unmount ==
    /\ UNCHANGED storeVars
    /\ mounted
    /\ mounted' = FALSE
    /\ timers' = <<>>
    /\ roomState' = "disconnected"
    /\ remoteParticipants' = {}
    /\ agentState' = "disconnected"
    /\ attempts' = Prune(AbortAll(RejectConnects(attempts)))
    /\ rpcs' = MarkLate(rpcs)
    /\ out' = <<"unmount", "room.disconnect">>
    /\ UNCHANGED <<appVars, sessionAge, everAvailable, isLoading, gameStarted,
                   selectedLanguage, score>>

----------------------------------------------------------------------------
(* The room and the agent *)

\* room.connect() succeeded.
connectResolved ==
    /\ UNCHANGED storeVars
    /\ roomState = "connecting"
    /\ roomState' = "connected"
    /\ attempts' = Prune([i \in 1..Len(attempts) |->
                            IF attempts[i].conn = "connect"
                            THEN [attempts[i] EXCEPT !.conn = "done"]
                            ELSE attempts[i]])
    /\ out' = <<"connect resolved">>
    /\ UNCHANGED <<mounted, appVars, remoteParticipants, agentState, timeVars,
                   gameVars>>

\* room.connect() failed: the room goes back to disconnected and says so.
connectRejected ==
    /\ UNCHANGED storeVars
    /\ roomState = "connecting"
    /\ Disconnected(<<"connect rejected">>)

\* The server or the network ends the connection.
RoomDisconnected ==
    /\ UNCHANGED storeVars
    /\ roomState = "connected"
    /\ Disconnected(<<"Disconnected">>)

ParticipantConnected(p) ==
    /\ UNCHANGED storeVars
    /\ roomState = "connected"
    /\ p \in Participants \ remoteParticipants
    /\ remoteParticipants' = remoteParticipants \cup {p}
    /\ agentState' = IF isAgent(p) THEN "initializing" ELSE agentState
    /\ timers' = IF mounted
                 THEN TimeoutEffect(sessionStarted, agentState,
                                    sessionStarted, agentState', timers)
                 ELSE timers
    /\ out' = <<"ParticipantConnected">>
    /\ UNCHANGED <<mounted, appVars, roomState, attempts, sessionAge, everAvailable,
                   gameVars>>

ParticipantDisconnected(p) ==
    /\ UNCHANGED storeVars
    /\ roomState = "connected"
    /\ p \in remoteParticipants
    /\ remoteParticipants' = remoteParticipants \ {p}
    /\ agentState' = IF isAgent(p) THEN "connecting" ELSE agentState
    /\ timers' = IF mounted
                 THEN TimeoutEffect(sessionStarted, agentState,
                                    sessionStarted, agentState', timers)
                 ELSE timers
    /\ out' = <<"ParticipantDisconnected">>
    /\ UNCHANGED <<mounted, appVars, roomState, attempts, sessionAge, everAvailable,
                   gameVars>>

\* The agent reports a new state of itself.
AgentStateChanged(s) ==
    /\ UNCHANGED storeVars
    /\ roomState = "connected"
    /\ FindAgent(remoteParticipants) # NoAgent
    /\ s \in ReportedStates \ {agentState}
    /\ agentState' = s
    /\ timers' = IF mounted
                 THEN TimeoutEffect(sessionStarted, agentState,
                                    sessionStarted, s, timers)
                 ELSE timers
    /\ everAvailable' = (everAvailable \/ (sessionStarted /\ isAgentAvailable(s)))
    /\ out' = <<"AgentStateChanged">>
    /\ UNCHANGED <<mounted, appVars, roomState, remoteParticipants, attempts,
                   sessionAge, gameVars>>

----------------------------------------------------------------------------
(* WordGameSessionView: the liveness timeout *)

\* One time unit passes; a timer that is due fires before more time passes.
Tick ==
    /\ UNCHANGED storeVars
    /\ \A i \in 1..Len(timers) : timers[i].left > 0
    /\ timers # <<>> \/ (mounted /\ sessionStarted /\ sessionAge < MaxAge)
    /\ timers' = [i \in 1..Len(timers) |-> [timers[i] EXCEPT !.left = @ - 1]]
    /\ sessionAge' = IF mounted /\ sessionStarted
                     THEN Min(sessionAge + 1, MaxAge)
                     ELSE sessionAge
    /\ out' = <<>>
    /\ UNCHANGED <<mounted, appVars, roomVars, attempts, everAvailable, gameVars>>

\* The setTimeout callback, with the agentState it closed over.
TimeoutFires(i) ==
    /\ UNCHANGED storeVars
    /\ i \in 1..Len(timers)
    /\ timers[i].left = 0
    /\ IF isAgentAvailable(timers[i].agentState)
       THEN /\ timers' = RemoveAt(timers, i)
            /\ out' = <<"timeout">>
            /\ UNCHANGED <<mounted, appVars, roomVars, attempts, sessionAge,
                           everAvailable, gameVars>>
       ELSE IF roomState = "disconnected"
       THEN \* room.disconnect() on a disconnected room emits nothing
            /\ timers' = RemoveAt(timers, i)
            /\ out' = <<"timeout", reason(timers[i].agentState), "room.disconnect">>
            /\ UNCHANGED <<mounted, appVars, roomVars, attempts, sessionAge,
                           everAvailable, gameVars>>
       ELSE Disconnected(<<"timeout", reason(timers[i].agentState), "room.disconnect">>)

----------------------------------------------------------------------------
(* Specifications *)

Environment ==
    \/ onStartGame
    \/ \E i \in 1..MaxAttempts : detailsResolved(i)
    \/ \E i \in 1..MaxAttempts : detailsRejected(i)
    \/ \E i \in 1..MaxAttempts : microphoneResolved(i)
    \/ \E i \in 1..MaxAttempts : microphoneRejected(i)
    \/ connectResolved
    \/ connectRejected
    \/ RoomDisconnected
    \/ \E p \in Participants : ParticipantConnected(p)
    \/ \E p \in Participants : ParticipantDisconnected(p)

GameControl ==
    \/ handleStartGame
    \/ handleStopGame
    \/ \E lang \in LANGUAGES : setSelectedLanguage(lang)
    \/ \E i \in 1..MaxRpcs : performRpcResolved(i)
    \/ \E i \in 1..MaxRpcs : performRpcRejected(i)
    \/ \E correct \in BOOLEAN : AnswerJudged(correct)

Session ==
    \/ onMediaDevicesError
    \/ \E s \in ReportedStates : AgentStateChanged(s)
    \/ Tick
    \/ \E i \in 1..MaxTimers : TimeoutFires(i)
    \/ Unmount

Provider ==
    \/ \E last \in BOOLEAN : refreshResolved(last)
    \/ \E last \in BOOLEAN : refreshRejected(last)

Next == Environment \/ GameControl \/ Session \/ Provider

Spec == Init /\ [][Next]_vars

\* The game control with the room around it; time stands still.
NextGame == Environment \/ GameControl

SpecGame == Init /\ [][NextGame]_vars

\* The game control with the room around it and the score on display.
NextScore == Environment \/ GameControl \/ ScoreDisplay

SpecScore == Init /\ [][NextScore]_vars

\* The session and its liveness timeout; nobody touches the game controls.
NextSession == Environment \/ Session

SpecSession == Init /\ [][NextSession]_vars

\* The session with the connection detail provider answering its refreshes.
NextDetails == Environment \/ Session \/ Provider

SpecDetails == Init /\ [][NextDetails]_vars

\* The score display alone, for every score the state can hold with
\* correct <= total <= MaxTotal.
Scores == {sc \in [correct : 0..MaxTotal, total : 0..MaxTotal] : sc.correct <= sc.total}

InitAccuracy ==
    /\ mounted = TRUE
    /\ sessionStarted = TRUE
    /\ audioStarted = TRUE
    /\ connectionDetails = "none"
    /\ refreshing = FALSE
    /\ roomState = "connected"
    /\ remoteParticipants = {"agent-1"}
    /\ agentState = "listening"
    /\ attempts = <<>>
    /\ timers = <<>>
    /\ sessionAge = 0
    /\ everAvailable = TRUE
    /\ isLoading = FALSE
    /\ gameStarted = TRUE
    /\ selectedLanguage = InitialLanguage
    /\ score \in Scores
    /\ rpcs = <<>>
    /\ word_pairs = EmptyBag
    /\ out = <<>>

NextAccuracy == ScoreDisplay

SpecAccuracy == InitAccuracy /\ [][NextAccuracy]_vars

----------------------------------------------------------------------------
(* The word_pairs table (schema.sql).  A row is modelled by its triplet     *)
(* (english_word, translated_word, target_language); id and created_at are  *)
(* generated per row and constrain nothing.  The table is a bag of          *)
(* triplets, so that two rows with the same triplet are a state the model   *)
(* can express.                                                             *)

Row(english, translated, language) ==
    [english_word |-> english, translated_word |-> translated, target_language |-> language]

\* INSERT ... VALUES of schema.sql
SeedRows ==
    << Row("dog", "cachorro", "Portuguese"),
       Row("cat", "gato", "Portuguese"),
       Row("house", "casa", "Portuguese"),
       Row("water", "água", "Portuguese"),
       Row("hello", "olá", "Portuguese"),
       Row("goodbye", "adeus", "Portuguese"),
       Row("thank you", "obrigado", "Portuguese"),
       Row("please", "por favor", "Portuguese"),
       Row("yes", "sim", "Portuguese"),
       Row("no", "não", "Portuguese"),
       Row("food", "comida", "Portuguese"),
       Row("book", "livro", "Portuguese"),
       Row("car", "carro", "Portuguese"),
       Row("friend", "amigo", "Portuguese"),
       Row("love", "amor", "Portuguese") >>

\* "Adding More Words" of the Supabase README
MoreWords ==
    << Row("school", "escola", "Portuguese"),
       Row("teacher", "professor", "Portuguese"),
       Row("student", "estudante", "Portuguese") >>

\* "Multiple Languages" of the Supabase README
MultipleLanguages ==
    << Row("hello", "bonjour", "French"),
       Row("hello", "hola", "Spanish"),
       Row("hello", "ciao", "Italian") >>

\* The statements of the repository that insert with ON CONFLICT DO NOTHING.
Statements == {SeedRows, MoreWords, MultipleLanguages}

\* Rows typed into the Table Editor ("Insert row"): a seed row, a second
\* translation of a seed word, the same word in another case, a row of
\* each README statement.
EditorRows ==
    { Row("dog", "cachorro", "Portuguese"),
      Row("dog", "cão", "Portuguese"),
      Row("Dog", "cachorro", "Portuguese"),
      Row("school", "escola", "Portuguese"),
      Row("hello", "bonjour", "French") }

\* Mutant of Conflicts: the table without its UNIQUE constraint.
ConflictsNever(table, row) == FALSE

\* UNIQUE(english_word, translated_word, target_language): a row of the
\* table has the same triplet.
Conflicts(table, row) ==
    \E r \in BagToSet(table) :
        /\ r.english_word = row.english_word
        /\ r.translated_word = row.translated_word
        /\ r.target_language = row.target_language

\* INSERT ... VALUES rows ON CONFLICT (...) DO NOTHING: the rows are inserted
\* in order, a row that conflicts with the table so far is skipped.
RECURSIVE OnConflictDoNothing(_, _)
OnConflictDoNothing(table, rows) ==
    IF rows = <<>> THEN table
    ELSE LET row == Head(rows)
             next == IF Conflicts(table, row) THEN table
                     ELSE table (+) SetToBag({row})
         IN OnConflictDoNothing(next, Tail(rows))

\* The command tag: the number of rows the statement inserted.
Inserted(before, after) ==
    IF BagCardinality(after) = BagCardinality(before) THEN "INSERT 0 0" ELSE "INSERT 0 n"

\* One of the INSERT ... ON CONFLICT DO NOTHING statements is run.
InsertStatement(rows) ==
    /\ word_pairs' = OnConflictDoNothing(word_pairs, rows)
    /\ out' = << IF rows = SeedRows THEN "seed insert" ELSE "insert statement",
                 "ok", Inserted(word_pairs, word_pairs') >>
    /\ UNCHANGED <<mounted, appVars, roomVars, attempts, timeVars, gameVars>>

\* A row is inserted without ON CONFLICT: the unique constraint rejects it
\* when its triplet is stored already.
InsertRow(row) ==
    /\ IF Conflicts(word_pairs, row)
       THEN /\ out' = <<"insert row", "unique_violation", "INSERT 0 0">>
            /\ UNCHANGED word_pairs
       ELSE /\ word_pairs' = word_pairs (+) SetToBag({row})
            /\ out' = <<"insert row", "ok", "INSERT 0 n">>
    /\ UNCHANGED <<mounted, appVars, roomVars, attempts, timeVars, gameVars>>

Store ==
    \/ \E rows \in Statements : InsertStatement(rows)
    \/ \E row \in EditorRows : InsertRow(row)

NextStore == Store

\* The table right after CREATE TABLE, and the statements run on it.
SpecStore == Init /\ [][NextStore]_vars

----------------------------------------------------------------------------
(* Properties *)

Range(q) == {q[i] : i \in 1..Len(q)}

Handlers == {"handleStartGame", "handleStopGame"}

\* The step ran handleStartGame or handleStopGame.
HandlerStep == out' # <<>> /\ out'[1] \in Handlers

\* The step settled the performRpc call rpcs[i].
SettleStep(i) == i \in 1..Len(rpcs) /\ rpcs' = RemoveAt(rpcs, i)

\* The room went from connecting or connected to disconnected.
DisconnectStep == roomState # "disconnected" /\ roomState' = "disconnected"

\* While the session is not started the room is disconnected, so the connect
\* effect of a new session always starts an attempt.
RoomIdleOutsideSession == mounted /\ ~sessionStarted => roomState = "disconnected"

\* C1: at most one start_game/stop_game RPC is outstanding; a request made
\* while one is outstanding returns at once, dispatches nothing and is not
\* queued (a call is dispatched only by a handler that found none outstanding).
C1_OneRpcInFlight ==
    [][/\ Len(rpcs') <= 1
       /\ Len(rpcs') > Len(rpcs) => HandlerStep /\ rpcs = <<>> /\ ~isLoading
       /\ HandlerStep /\ rpcs # <<>> =>
             /\ out' \in {<<h, "return">> : h \in Handlers}
             /\ UNCHANGED gameVars]_vars

C1_Witness ==
    /\ out = <<"handleStopGame", "return">>
    /\ Len(rpcs) = 1
    /\ rpcs[1].method = "stop_game"

\* C2: a disconnect forces gameStarted to false from any state, and a
\* start_game/stop_game RPC that was in flight when the room disconnected
\* changes nothing of the game state when it settles.
C2_DisconnectDiscardsRpc ==
    [][/\ DisconnectStep => ~gameStarted'
       /\ \A i \in 1..Len(rpcs) :
             SettleStep(i) /\ rpcs[i].late =>
                UNCHANGED <<gameStarted, selectedLanguage, score>>]_vars

\* C3 as stated: gameStarted goes false->true on a successful start and
\* true->false on a successful stop, no call makes a same-value transition, and
\* setScore({0,0}) is called exactly on the transitions into Active.
C3_StrictAlternation ==
    [][/\ (out' # <<>> /\ out'[1] = "start_game resolved" /\ rpcs' # rpcs)
             => ~gameStarted /\ gameStarted'
       /\ (out' # <<>> /\ out'[1] = "stop_game resolved" /\ rpcs' # rpcs)
             => gameStarted /\ ~gameStarted'
       /\ ("setScore" \in Range(out') /\ out' # out)
             <=> (~gameStarted /\ gameStarted')]_vars

\* C3 amended: gameStarted changes only false->true by a resolved start_game,
\* true->false by a resolved stop_game or by a room disconnect; a resolved
\* start_game always finds it false and sets it; a resolved stop_game leaves it
\* false, having found it true unless the room disconnected while the call was in
\* flight; setScore({0,0}) is called on every transition into Active and on
\* every room disconnect, and at no other moment.
C3_Alternation ==
    [][/\ gameStarted' # gameStarted =>
             \/ ~gameStarted /\ out'[1] = "start_game resolved"
             \/ gameStarted /\ out'[1] = "stop_game resolved"
             \/ gameStarted /\ DisconnectStep
       /\ \A i \in 1..Len(rpcs) :
             SettleStep(i) /\ out'[1] = "start_game resolved"
                => ~gameStarted /\ gameStarted' /\ score' = ZeroScore
       /\ \A i \in 1..Len(rpcs) :
             SettleStep(i) /\ out'[1] = "stop_game resolved"
                => ~gameStarted' /\ (gameStarted \/ rpcs[i].late)
       /\ ("setScore" \in Range(out') /\ out' # out)
             <=> ((~gameStarted /\ gameStarted') \/ DisconnectStep)]_vars

C3_Witness ==
    /\ out = <<"start_game resolved", "setGameStarted(true)", "setScore">>
    /\ gameStarted
    /\ score = ZeroScore

\* C4: with no agent among the remote participants, handleStartGame and
\* handleStopGame dispatch no RPC and leave the game state as it was; unless
\* the call was turned away as busy, it reports that no agent was found.
C4_NoAgentPresent ==
    [][HandlerStep /\ ~(\E p \in remoteParticipants : isAgent(p)) =>
          /\ rpcs' = rpcs
          /\ UNCHANGED <<isLoading, gameStarted, selectedLanguage, score>>
          /\ ~isLoading =>
                out' \in {<<h, "console.error: No agent found in the room">> :
                            h \in Handlers}]_vars

C4_Witness ==
    /\ out = <<"handleStopGame", "console.error: No agent found in the room">>
    /\ remoteParticipants = {"user-2"}
    /\ gameStarted
    /\ rpcs = <<>>

\* C5: a rejected RPC leaves gameStarted, score and selectedLanguage as they
\* were, dispatches no new call and clears isLoading; and after every
\* completion of a start/stop attempt (resolved, no agent, rejected) isLoading
\* is false.
C5_RpcFailure ==
    [][/\ \A i \in 1..Len(rpcs) :
             SettleStep(i) /\ out'[1] \in {"start_game rejected", "stop_game rejected"}
                => /\ UNCHANGED <<gameStarted, selectedLanguage, score>>
                   /\ rpcs' = <<>>
                   /\ ~isLoading'
       /\ (\E i \in 1..Len(rpcs) : SettleStep(i)) => ~isLoading'
       /\ HandlerStep /\ ~isLoading /\ rpcs' = rpcs => ~isLoading']_vars

C5_Witness ==
    /\ out = <<"stop_game rejected", "console.error: Failed to stop game">>
    /\ gameStarted
    /\ ~isLoading
    /\ rpcs = <<>>

\* The step ran the onChange of the language select.
SelectStep == out' # <<>> /\ out'[1] = "setSelectedLanguage"

\* The step dispatched a performRpc call (the last of rpcs').
DispatchStep == Len(rpcs') > Len(rpcs)

\* The step called setScore.
SetScoreStep == "setScore" \in Range(out') /\ out' # out

\* The step is the continuation of a handler whose call resolved.
ResolvedStep(method) ==
    /\ \E i \in 1..Len(rpcs) : SettleStep(i) /\ rpcs[i].method = method
    /\ out'[1] = method \o " resolved"

\* The step ran a setTimeout callback of the session view.
TimeoutStep == out' # <<>> /\ out'[1] = "timeout" /\ timers' # timers

\* C6: a timeout that fires while the agent is connecting shows "Agent did not
\* join the room" and disconnects the room, ending the session; one that fires
\* while the agent is unavailable in another state shows "Agent connected but
\* did not complete initializing" and leaves the room disconnected; and while
\* the session runs with the agent connecting, a timeout is pending for it.
C6_TimeoutReason ==
    [][/\ TimeoutStep /\ agentState = "connecting" =>
             /\ SubSeq(out', 1, 3) = <<"timeout", "toast: Agent did not join the room.",
                                       "room.disconnect">>
             /\ roomState # "disconnected" /\ roomState' = "disconnected"
             /\ ~sessionStarted'
       /\ TimeoutStep /\ ~isAgentAvailable(agentState) /\ agentState # "connecting" =>
             /\ SubSeq(out', 1, 3) =
                   <<"timeout",
                     "toast: Agent connected but did not complete initializing.",
                     "room.disconnect">>
             /\ roomState' = "disconnected"
       /\ mounted' /\ sessionStarted' /\ agentState' = "connecting" =>
             /\ Len(timers') = 1
             /\ timers'[1].agentState = "connecting"
             /\ timers'[1].left \in 0..TIMEOUT]_vars

C6_Witness ==
    /\ Len(out) >= 3
    /\ out[1] = "timeout"
    /\ out[2] = "toast: Agent did not join the room."
    /\ roomState = "disconnected"
    /\ ~sessionStarted
    /\ sessionAge >= TIMEOUT

\* C7: once the agent has been available in a session (listening before the
\* timeout), no timeout of that session disconnects the room, whatever the
\* agent does afterwards.
C7_TimerInertOnceAvailable ==
    [][TimeoutStep /\ everAvailable =>
          /\ roomState' = roomState
          /\ sessionStarted' = sessionStarted
          /\ "room.disconnect" \notin Range(out')]_vars

\* C8: one timeout per session: a timeout is armed only by the step that
\* starts the session, and so fires only TIMEOUT units after the session start.
C8_OneTimeoutPerSession ==
    [][/\ (timers' # timers /\ \E i \in 1..Len(timers') : timers'[i].left = TIMEOUT)
             => ~sessionStarted /\ sessionStarted'
       /\ TimeoutStep => sessionAge = TIMEOUT]_vars

\* C9: no timeout is pending once the session has ended or the view is
\* unmounted, and a timeout fires only in a mounted view whose session runs.
C9_NoTimeoutAfterTeardown ==
    [][/\ ~mounted' \/ ~sessionStarted' => timers' = <<>>
       /\ TimeoutStep => mounted /\ sessionStarted]_vars

\* The session ended (the room was disconnected remotely) while its timeout
\* was still pending.
C9_Witness ==
    /\ mounted /\ ~sessionStarted
    /\ out # <<>> /\ out[1] = "Disconnected"
    /\ sessionAge \in 1..(TIMEOUT - 1)
    /\ timers = <<>>

\* The timer runs and fires; nothing is assumed of the promises of the
\* connection attempt nor of the agent.
SpecSessionFair ==
    /\ SpecSession
    /\ WF_vars(Tick)
    /\ WF_vars(\E i \in 1..MaxTimers : TimeoutFires(i))

\* C10: a started session whose agent never becomes available is eventually
\* torn down (sessionStarted becomes false).
C10_EventualTeardown ==
    [](mounted /\ sessionStarted =>
          <>(~sessionStarted \/ ~mounted \/ isAgentAvailable(agentState)))

\* C11: selecting language x and then starting the game dispatches start_game
\* with payload x: the language starts as Portuguese, a selection of x stores
\* exactly x, nothing else changes the stored language, and start_game is
\* dispatched with the stored language as its payload.
C11_LanguageRoundTrip ==
    /\ selectedLanguage = InitialLanguage
    /\ [][/\ SelectStep => /\ out'[2] \in LANGUAGES
                           /\ selectedLanguage' = out'[2]
          /\ ~SelectStep => selectedLanguage' = selectedLanguage
          /\ DispatchStep /\ out'[1] = "handleStartGame" =>
                /\ rpcs'[Len(rpcs')].method = "start_game"
                /\ rpcs'[Len(rpcs')].payload = selectedLanguage
                /\ rpcs'[Len(rpcs')].payload \in LANGUAGES]_vars

C11_Witness ==
    /\ out = <<"handleStartGame", "performRpc">>
    /\ selectedLanguage = "Belarusian"
    /\ rpcs = <<Rpc("start_game", "Belarusian", "agent-1")>>

\* C12: the selected language changes only while no game is active and no
\* start/stop RPC is in flight, and a game becomes active with the selected
\* language equal to the payload of the start_game call that started it; so
\* the language shown while playing is the one the agent was started with.
C12_LanguageFixedWhilePlaying ==
    [][/\ gameStarted \/ isLoading \/ rpcs # <<>> =>
             selectedLanguage' = selectedLanguage
       /\ ~gameStarted /\ gameStarted' =>
             \E i \in 1..Len(rpcs) :
                /\ SettleStep(i)
                /\ rpcs[i].method = "start_game"
                /\ rpcs[i].payload = selectedLanguage']_vars

C12_Witness ==
    /\ gameStarted
    /\ out # <<>> /\ out[1] = "start_game resolved"
    /\ selectedLanguage = "French"

\* C13 as stated: a resolved stop_game sets gameStarted to false and leaves
\* score and selectedLanguage as they were, and the score is set back to zero
\* by a resolved start_game only.
C13_ScoreResetByStartOnly ==
    [][/\ ResolvedStep("stop_game") =>
             /\ ~gameStarted'
             /\ score' = score
             /\ selectedLanguage' = selectedLanguage
       /\ SetScoreStep => ResolvedStep("start_game")]_vars

\* C13 amended: a resolved stop_game sets gameStarted to false, calls no
\* setScore and leaves score and selectedLanguage as they were; the score is set
\* back to zero by a resolved start_game or by a room disconnect, by nothing
\* else.
C13_StopKeepsScore ==
    [][/\ ResolvedStep("stop_game") =>
             /\ ~gameStarted'
             /\ "setScore" \notin Range(out')
             /\ score' = score
             /\ selectedLanguage' = selectedLanguage
       /\ SetScoreStep => ResolvedStep("start_game") \/ DisconnectStep]_vars

C13_Witness ==
    /\ out = <<"stop_game resolved", "setGameStarted(false)">>
    /\ ~gameStarted
    /\ mounted /\ sessionStarted
    /\ roomState = "connected"
    /\ selectedLanguage = "German"

\* C14: in every reachable state score.correct and score.total are natural
\* numbers and score.correct <= score.total.
C14_ScoreInvariant ==
    /\ score.correct \in Nat
    /\ score.total \in Nat
    /\ score.correct <= score.total

\* A game is being played and its score is on display.
C14_Witness ==
    /\ gameStarted
    /\ out # <<>> /\ out[1] = "answer judged"
    /\ score.correct <= score.total

\* C15: an answer judged by the agent increments score.total by one, and
\* score.correct by one iff it was judged correct.
C15_RecordAnswer ==
    [][out' # <<>> /\ out'[1] = "answer judged" =>
          /\ score'.total = score.total + 1
          /\ score'.correct = score.correct + (IF out'[2] = "correct" THEN 1 ELSE 0)]_vars

\* C16: a media devices error shows a notification and does nothing else:
\* sessionStarted, the room, the connection attempt, the timeout and the game
\* state are as they were.
C16_MediaDeviceErrorFrame ==
    [][out' # <<>> /\ out'[1] = "onMediaDevicesError" =>
          /\ out' = <<"onMediaDevicesError",
                      "toast: Encountered an error with your media devices">>
          /\ UNCHANGED <<mounted, appVars, roomVars, attempts, timers, gameVars>>]_vars

C16_Witness ==
    /\ out # <<>> /\ out[1] = "onMediaDevicesError"
    /\ mounted /\ sessionStarted
    /\ roomState = "connected"
    /\ agentState = "listening"
    /\ Len(timers) = 1

\* The step ran a handler of the control bar or the continuation of one.
GameControlStep ==
    HandlerStep \/ SelectStep \/ \E i \in 1..Len(rpcs) : SettleStep(i)

\* C17: no step of the game control (start, stop, language selection, the
\* continuation after a resolved or rejected call) changes the room, the
\* connection attempts or sessionStarted, or calls room.connect or
\* room.disconnect; room.connect is called by the connect effect only and
\* room.disconnect by the effect cleanup and the timeout only.
C17_GameControlLeavesRoom ==
    [][/\ GameControlStep =>
             /\ UNCHANGED <<mounted, appVars, roomVars, attempts, timers>>
             /\ "room.connect" \notin Range(out')
             /\ "room.disconnect" \notin Range(out')
       /\ "room.connect" \in Range(out') =>
             out'[1] \in {"details resolved", "onStartGame"}
       /\ "room.disconnect" \in Range(out') => out'[1] \in {"unmount", "timeout"}]_vars

C17_Witness ==
    /\ out = <<"start_game rejected", "console.error: Failed to start game">>
    /\ mounted /\ sessionStarted
    /\ roomState = "connected"
    /\ FindAgent(remoteParticipants) # NoAgent

\* C18: every call dispatched is addressed to a remote participant that is
\* in the room and is an agent when the call is made, and is start_game with
\* a language as payload or stop_game with the empty payload.
C18_RpcAddressedToAgent ==
    [][DispatchStep =>
          /\ SubSeq(rpcs', 1, Len(rpcs)) = rpcs
          /\ Len(rpcs') = Len(rpcs) + 1
          /\ rpcs'[Len(rpcs')].destinationIdentity \in remoteParticipants
          /\ isAgent(rpcs'[Len(rpcs')].destinationIdentity)
          /\ \/ /\ rpcs'[Len(rpcs')].method = "start_game"
                /\ rpcs'[Len(rpcs')].payload \in LANGUAGES
             \/ /\ rpcs'[Len(rpcs')].method = "stop_game"
                /\ rpcs'[Len(rpcs')].payload = ""]_vars

C18_Witness ==
    /\ out = <<"handleStopGame", "performRpc">>
    /\ rpcs = <<Rpc("stop_game", "", "agent-1")>>
    /\ remoteParticipants = Participants

\* The integer nearest to 100 * correct / total, a half rounded up.
NearestPercent(sc) == (200 * sc.correct + sc.total) \div (2 * sc.total)

Count(q, x) == Cardinality({i \in 1..Len(q) : q[i] = x})

\* The step called room.connect with the details it names.
ConnectStep == "room.connect" \in Range(out') /\ out' # out

\* C20 as stated: every step in which the room becomes disconnected, whatever
\* disconnected it, sets sessionStarted to false and calls
\* refreshConnectionDetails exactly once; and no room.connect is given details
\* that a session has connected with before.
C20_EveryDisconnect ==
    [][/\ DisconnectStep =>
             /\ ~sessionStarted'
             /\ Count(out', "refreshConnectionDetails") = 1
       /\ ConnectStep => Last(out') \in {"fetched", "fresh"}]_vars

\* C20 amended: every room disconnect that reaches the mounted app (timeout,
\* remote close, failed connect) sets sessionStarted to false, calls
\* refreshConnectionDetails exactly once and leaves no memoised details; a
\* session ends in such a step only; and no room.connect is given details that
\* a session has connected with before.  The disconnect made by the effect
\* cleanup at unmount reaches no handler and refreshes nothing.
C20_DisconnectEndsSession ==
    [][/\ DisconnectStep /\ mounted' =>
             /\ ~sessionStarted'
             /\ Count(out', "refreshConnectionDetails") = 1
             /\ connectionDetails' = "none"
             /\ refreshing'
       /\ DisconnectStep /\ ~mounted' =>
             /\ sessionStarted' = sessionStarted
             /\ "refreshConnectionDetails" \notin Range(out')
       /\ sessionStarted /\ ~sessionStarted' => DisconnectStep /\ mounted'
       /\ ConnectStep => Last(out') \in {"fetched", "fresh"}]_vars

\* A session was ended by a disconnect, the refresh it triggered resolved,
\* and the next session connected with the refreshed details.
C20_Witness ==
    /\ Len(out) = 5
    /\ out[1] = "onStartGame" /\ out[4] = "room.connect" /\ out[5] = "fresh"
    /\ sessionStarted
    /\ connectionDetails = "used"

ConnectErrorToast == "toast: There was an error connecting to the agent"

\* The step is the rejection of the detail fetch of attempt i.
DetailsFailStep(i) ==
    /\ out' # <<>> /\ out'[1] = "details rejected"
    /\ attempts[i].conn = "fetch"
    /\ attempts' = Prune(SetAt(attempts, i,
                        [attempts[i] EXCEPT !.conn = "done", !.caught = TRUE]))

\* The step is the rejection of setMicrophoneEnabled of attempt i.
MicrophoneFailStep(i) ==
    /\ out' # <<>> /\ out'[1] = "microphone rejected"
    /\ attempts[i].mic
    /\ attempts' = Prune(SetAt(attempts, i,
                        [attempts[i] EXCEPT !.mic = FALSE, !.caught = TRUE]))

\* Attempt a is neither torn down nor failed already.
Live(a) == ~a.aborted /\ ~a.caught

\* The attempts whose room.connect is pending and which are live.
LiveConnects == {i \in 1..Len(attempts) : attempts[i].conn = "connect" /\ Live(attempts[i])}

\* C21: a failure of the microphone, of the detail fetch or of room.connect
\* shows the connection error once if its attempt is live (not torn down, not
\* failed before) and nothing if the attempt was torn down; the teardown at
\* unmount precedes the failure it causes; and the error is shown by no other
\* step.
C21_AbortedAttemptSilent ==
    [][/\ \A i \in 1..Len(attempts) :
             DetailsFailStep(i) \/ MicrophoneFailStep(i) =>
                Count(out', ConnectErrorToast) = (IF Live(attempts[i]) THEN 1 ELSE 0)
       /\ DisconnectStep =>
             Count(out', ConnectErrorToast) =
                (IF out'[1] = "unmount" THEN 0 ELSE Cardinality(LiveConnects))
       /\ Count(out', ConnectErrorToast) > 0 /\ out' # out =>
             \E i \in 1..Len(attempts) :
                /\ Live(attempts[i])
                /\ DetailsFailStep(i) \/ MicrophoneFailStep(i)
                   \/ (DisconnectStep /\ i \in LiveConnects)]_vars

\* The microphone failed for an attempt torn down by the unmount, whose
\* detail fetch is still pending: nothing is shown.
C21_Witness ==
    /\ out = <<"microphone rejected">>
    /\ ~mounted
    /\ Len(attempts) = 1
    /\ attempts[1].aborted /\ attempts[1].caught
    /\ attempts[1].conn = "fetch"

\* The rows of the table as a set of triplets.
Triplets(table) == BagToSet(table)

\* The seed insert of schema.sql ran in this step.
SeedStep == out'[1] = "seed insert"

\* C22: the word_pairs table never holds two rows with the same
\* (english_word, translated_word, target_language) triplet; the seed insert
\* raises no error and stores exactly the seed triplets that were missing,
\* and run on a table that holds the seed rows already (a second run) it
\* leaves the set of triplets unchanged.
C22_UniqueTripletsIdempotentSeed ==
    /\ [](\A row \in BagToSet(word_pairs) : CopiesIn(row, word_pairs) = 1)
    /\ [][SeedStep =>
            /\ out'[2] = "ok"
            /\ Triplets(word_pairs') = Triplets(word_pairs) \cup Range(SeedRows)
            /\ Range(SeedRows) \subseteq Triplets(word_pairs) =>
                  /\ Triplets(word_pairs') = Triplets(word_pairs)
                  /\ word_pairs' = word_pairs
                  /\ out'[3] = "INSERT 0 0"]_vars

\* The seed insert has run on a table that held every seed row.
C22_Witness ==
    /\ out = <<"seed insert", "ok", "INSERT 0 0">>
    /\ Range(SeedRows) \subseteq Triplets(word_pairs)
    /\ BagCardinality(word_pairs) > Len(SeedRows)

DetailsStep(i) ==
    /\ out' # <<>> /\ out'[1] = "details resolved"
    /\ attempts[i].conn = "fetch"
    /\ \/ attempts' = SetAt(attempts, i, [attempts[i] EXCEPT !.conn = "connect"])
       \/ attempts' = Prune(SetAt(attempts, i, [attempts[i] EXCEPT !.conn = "done"]))

\* C24: an attempt whose effect has been torn down never calls room.connect,
\* also when its detail fetch completes after the teardown: the step that
\* completes the fetch of an aborted attempt calls no room.connect and leaves
\* the room as it was, every room.connect is called by an attempt that is not
\* aborted, and the room is not connecting or connected after the unmount.
C24_AbandonedAttemptNeverConnects ==
    [][/\ \A i \in 1..Len(attempts) :
             DetailsStep(i) /\ attempts[i].aborted =>
                /\ "room.connect" \notin Range(out')
                /\ roomState' = roomState
       /\ ConnectStep /\ out'[1] = "details resolved" =>
             \E i \in 1..Len(attempts) : DetailsStep(i) /\ ~attempts[i].aborted
       /\ ~mounted' => roomState' = "disconnected"]_vars

\* The timeout effect re-ran in this step: one of its dependencies changed in
\* a mounted view.
EffectRerunStep ==
    /\ mounted /\ mounted'
    /\ agentState' # agentState \/ sessionStarted' # sessionStarted

\* C25: at most one timeout is pending at any time and none while
\* sessionStarted is false; when the timeout effect re-runs, the timer armed
\* before is cleared, and what is pending afterwards is the one new timer, armed
\* with the full delay for the new agent state, if the session is started,
\* and nothing otherwise.
C25_OneTimerPending ==
    /\ [](/\ Len(timers) <= 1
          /\ ~sessionStarted => timers = <<>>)
    /\ [][EffectRerunStep =>
             timers' = IF sessionStarted' THEN <<NewTimer(agentState')>> ELSE <<>>]_vars

\* The effect re-ran with a timer pending that had run for a while: the agent
\* changed its state in a running session, and one fresh timer is pending.
C25_Witness ==
    /\ mounted /\ sessionStarted
    /\ out = <<"AgentStateChanged">>
    /\ sessionAge > 2
    /\ timers = <<NewTimer(agentState)>>

====
